---- MODULE Spec2Model ----
(***************************************************************************)
(* Model of the agnostica runtime: HTTPClientBase.request (retry, backoff, *)
(* rate-limit handling, header redaction) and the gateway Heartbeater.     *)
(***************************************************************************)
EXTENDS Integers, Sequences, FiniteSets, TLC

\* ------------------------------------------------------------------------
\* Bounds of the model
\* ------------------------------------------------------------------------
\* last clock value of a run with one request() call
MaxTime == 26
\* last clock value of a run with two concurrent request() calls
ConcTime == 5
\* last clock value of a run of the Heartbeater
HbTime == 14
\* most probes run() hands to the I/O loop in a run
MaxProbes == 2
\* the interval the Heartbeater is constructed with
Interval == 2
\* largest retry-after value a 429 response carries
MaxRetryAfter == 4
\* longest time session.request takes to answer or fail
MaxLatency == 1
\* most references of one kind a Mentions object carries
MaxRefs == 6
\* ids the entity cache is exercised with
MaxCacheIds == 3
\* max_messages the client is constructed with
MsgCapacity == 2
\* most entities built by create_user and create_message in a run
MaxSnapshots == 4
\* last clock value of a run of delete()
DelTime == 7
\* longest delay delete() is called with
MaxDelay == 3

\* ------------------------------------------------------------------------
\* Values
\* ------------------------------------------------------------------------
\* Python None, for string-valued slots
None == "None"
\* a key that is absent from a dict
NoKey == "<absent>"
\* a header that is absent from the response, and an unset time
NoHeader == -1
NoTime == -1
NoErrno == 0
\* float('inf')
Inf == 1000000

\* f.result(10) of Heartbeater.run
StallTimeout == 10
\* faulty variant: the loop runs range(6)
MaxTriesOneMore == 5 + 1

\* range(5) of the retry loop
MaxTries == 5
\* the statuses of the unconditional retry
RetryStatuses == {500, 502, 504, 524}
\* the errno values of the retried OSError
RetryErrnos == {54, 10054}

\* the client's token: unset, or a credential
Tokens == {"", "s3cr3t"}

\* statuses the platform answers with
Statuses == {201, 304, 400, 403, 404, 429, 500, 503, 524}
\* values of the retry-after header of a 429
RetryAfterVals == {NoHeader, MaxRetryAfter}

\* response bodies on the wire: content type and, for JSON, the keys present
Bodies ==
  { [ctype |-> "application/json", message |-> "Bad thing", code |-> "E1"],
    [ctype |-> "application/json", message |-> NoKey, code |-> NoKey],
    [ctype |-> "text/plain", message |-> NoKey, code |-> NoKey] }

\* failures of session.request: OSError with an errno, or another exception
TransportErrors ==
  { [cls |-> "OSError", errno |-> 54],
    [cls |-> "OSError", errno |-> 10054],
    [cls |-> "OSError", errno |-> 104],
    [cls |-> "ClientError", errno |-> NoErrno] }

NoResponse == [status |-> 0, retry_after |-> NoHeader, body |-> None]
NoExc == [cls |-> None, errno |-> NoErrno]
NoData == [pytype |-> None, message |-> NoKey, code |-> NoKey]
NoHeaders == [UserAgent |-> None, Authorization |-> NoKey]
NoResult == [type |-> None, status |-> 0, message |-> None, code |-> None,
             data |-> NoData, errno |-> NoErrno]

VARIABLES
  now,          \* the clock (time units of asyncio.sleep)
  horizon,      \* last clock value of the run
  token,        \* HTTPClientBase.token
  pc,           \* per call: "idle", "request", "sleep", "returned", "raised"
  tries,        \* per call: the loop variable of `for tries in range(5)`
  response,     \* per call: the local `response`
  data,         \* per call: the local `data`
  exc,          \* per call: the OSError caught by the current attempt
  headers,      \* per call: the headers passed to session.request
  log_headers,  \* per call: the local `log_headers`
  logged,       \* per call: the headers written by the last log line
  started,      \* per call: clock when request() was called
  attemptAt,    \* per call: clock when the running attempt was issued
  respAt,       \* per call: clock when the pending sleep was started
  wake,         \* per call: deadline of the pending asyncio.sleep
  hist,         \* per call: status of every finished attempt (0: no response)
  result,       \* per call: the value returned or the exception raised
  hb,           \* Heartbeater thread: "idle", "waiting", "blocked", "done", "crashed"
  loop,         \* the I/O loop ws.loop: "running" or "closed"
  stop_ev,      \* Heartbeater._stop_ev
  f,            \* the future of the scheduled probe: "none", "pending", "done", "failed"
  total,        \* the local `total` of run()
  waitUntil,    \* deadline of the pending _stop_ev.wait or f.result
  warnings,     \* stall warnings written to the log
  last_ping,    \* Heartbeater._last_ping
  last_pong,    \* Heartbeater._last_pong
  latency,      \* Heartbeater.latency
  probes,       \* probes handed to the I/O loop by run()
  due,          \* send times of the probes not yet acknowledged, oldest first
  acked,        \* send time of the probe acknowledged last
  pongs,        \* calls of record_pong so far
  stop_called,  \* stop() was called from outside run()
  recording,    \* record_pong is between its two statements
  conn,         \* WebSocket.connect: "idle", "handshake", "ping", "returned", "raised"
  conn_result,  \* what connect() returned or raised
  conn_pings,   \* probes issued by connect()
  conn_errors,  \* error lines logged by connect()
  f_server,     \* Mentions._server is set
  m_users,      \* ids of Mentions._users, in order
  m_roles,      \* ids of Mentions._roles, in order
  m_channels,   \* ids of Mentions._channels, in order
  ignore_cache, \* arguments of fill()
  ignore_errors,
  user_cache,   \* ids held by the user cache
  member_cache, \* ids held by the member cache of the owning server
  role_cache,   \* ids held by the role cache of the owning server
  channel_cache, \* ids held by the channel cache of the owning server
  fpc,          \* fill(): "idle", "users", "roles", "channels", "done", "raised"
  idx,          \* position of the running loop of fill() in its list
  flog,         \* the fetches fill() has issued, in order
  ferr,         \* the exception fill() raised
  uncached0,    \* user ids referenced and not cached when fill() was called
  uncached_roles0,    \* the same for role ids
  uncached_channels0, \* the same for channel ids
  c_users,      \* HTTPClientBase._users, an insertion-ordered dict
  c_messages,   \* HTTPClientBase._messages, an insertion-ordered dict
  c_clock,      \* entities built so far
  c_io,         \* requests issued by cache operations
  c_last,       \* the last cache operation and what it returned
  d_pc,         \* delete(): "idle", "awaiting", "returned", "raised"
  d_delay,      \* the delay argument of delete()
  d_err,        \* what delete() raised to its caller
  d_task,       \* the background task: "none", "created", "sleeping",
                \* "requesting", "done", "failed"
  d_wake,       \* when asyncio.sleep(delay) of the task returns
  d_outcome,    \* what the deletion request ended in
  d_calledAt,   \* when delete() was called
  d_returnedAt, \* when delete() returned or raised
  d_issuedAt    \* when the deletion request was issued

reqvars == <<token, pc, tries, response, data, exc, headers, log_headers, logged,
             started, attemptAt, respAt, wake, hist, result>>

hbvars == <<hb, loop, stop_ev, f, total, waitUntil, warnings, last_ping,
            last_pong, latency, probes, due, acked, pongs, stop_called,
            recording, conn, conn_result, conn_pings, conn_errors>>

fillvars == <<f_server, m_users, m_roles, m_channels, ignore_cache,
              ignore_errors, user_cache, member_cache, role_cache,
              channel_cache, fpc, idx, flog, ferr, uncached0,
                 uncached_roles0, uncached_channels0>>

cachevars == <<c_users, c_messages, c_clock, c_io, c_last>>

delvars == <<d_pc, d_delay, d_err, d_task, d_wake, d_outcome, d_calledAt,
             d_returnedAt, d_issuedAt>>

vars == <<now, horizon, reqvars, hbvars, fillvars, cachevars, delvars>>

Calls == DOMAIN pc

\* ------------------------------------------------------------------------
\* Pure functions of http.py and errors.py
\* ------------------------------------------------------------------------
Redacted == "Bearer [removed]"

Bearer(tok) == "Bearer " \o tok

BuildHeaders(tok) ==
  [UserAgent |-> "agnostica",
   Authorization |-> IF tok # "" THEN Bearer(tok) ELSE NoKey]

\* faulty variant: log_headers aliases headers, so the redaction reaches the request
RedactHeadersInPlace(h) ==
  [sent |-> IF h.Authorization # NoKey THEN [h EXCEPT !.Authorization = Redacted]
            ELSE h,
   log |-> IF h.Authorization # NoKey THEN [h EXCEPT !.Authorization = Redacted]
           ELSE h]

\* log_headers = headers.copy(), then the Authorization entry of the copy is
\* overwritten: the pair of the headers sent and the headers logged
RedactHeaders(h) ==
  [sent |-> h,
   log |-> IF h.Authorization # NoKey THEN [h EXCEPT !.Authorization = Redacted]
           ELSE h]

IsMedia(ctype) == ctype \in {"image/png", "video/mp4"}

Decode(body) ==
  IF IsMedia(body.ctype) THEN [pytype |-> "bytes", message |-> NoKey, code |-> NoKey]
  ELSE IF body.ctype = "application/json"
       THEN [pytype |-> "dict", message |-> body.message, code |-> body.code]
       ELSE [pytype |-> "str", message |-> NoKey, code |-> NoKey]

\* faulty variant: the delay doubles from attempt to attempt
BackoffDoubling(t) == 2 ^ t

\* faulty variant: the delay does not grow with the attempt
BackoffFlat(t) == 1

Backoff(t) == 1 + t * 2

\* faulty variant: the retry-after header is not read
RetryAfterIgnoresHeader(resp, t) == 1 + t * 2

RetryAfter(resp, t) ==
  IF resp.retry_after # NoHeader THEN resp.retry_after ELSE Backoff(t)

ExcMessage(d) ==
  IF d.pytype = "dict" THEN (IF d.message = NoKey THEN "" ELSE d.message) ELSE ""

ExcCode(d) ==
  IF d.pytype = "dict" THEN (IF d.code = NoKey THEN "Unknown" ELSE d.code) ELSE ""

HTTPException(type, resp, d) ==
  [type |-> type, status |-> resp.status, message |-> ExcMessage(d),
   code |-> ExcCode(d), data |-> d, errno |-> NoErrno]

Returned(d) ==
  [type |-> "return", status |-> 0, message |-> None, code |-> None,
   data |-> d, errno |-> NoErrno]

Propagated(e) ==
  [type |-> e.cls, status |-> 0, message |-> None, code |-> None,
   data |-> NoData, errno |-> e.errno]

IsSuccess(status) == 300 > status /\ status >= 200

IsRetryStatus(status) == status \in RetryStatuses

\* faulty variant: the 5th attempt is retried too
IsRetryableErrorAnyAttempt(e, t) ==
  e.cls = "OSError" /\ e.errno \in RetryErrnos

IsRetryableError(e, t) ==
  e.cls = "OSError" /\ t < MaxTries - 1 /\ e.errno \in RetryErrnos

\* faulty variant: 403 and 404 are not typed
TerminalErrorUntyped(resp, d) ==
  IF resp.status >= 500 THEN HTTPException("PlatformServerError", resp, d)
  ELSE HTTPException("HTTPException", resp, d)

\* faulty variant: the branch of the other 5xx statuses is missing
TerminalErrorNoServerBranch(resp, d) ==
  IF resp.status = 403 THEN HTTPException("Forbidden", resp, d)
  ELSE IF resp.status = 404 THEN HTTPException("NotFound", resp, d)
  ELSE HTTPException("HTTPException", resp, d)

TerminalError(resp, d) ==
  IF resp.status = 403 THEN HTTPException("Forbidden", resp, d)
  ELSE IF resp.status = 404 THEN HTTPException("NotFound", resp, d)
  ELSE IF resp.status >= 500 THEN HTTPException("PlatformServerError", resp, d)
  ELSE HTTPException("HTTPException", resp, d)

\* faulty variant: running out of retries always raises the server error
ExhaustedErrorAlwaysServer(resp, d) ==
  IF resp # NoResponse THEN HTTPException("PlatformServerError", resp, d)
  ELSE [NoResult EXCEPT !.type = "RuntimeError"]

ExhaustedError(resp, d) ==
  IF resp # NoResponse
  THEN (IF resp.status >= 500 THEN HTTPException("PlatformServerError", resp, d)
        ELSE HTTPException("HTTPException", resp, d))
  ELSE [NoResult EXCEPT !.type = "RuntimeError"]

\* ------------------------------------------------------------------------
\* Mentions.fill
\* ------------------------------------------------------------------------
\* faulty variant: the bulk path starts one reference later
BulkThresholdOneMore == 5 + 1

\* `>= 5` of the bulk conditions of fill
BulkThreshold == 5

Ids == 1..MaxRefs

\* n references over the ids 1..d, repeating once d is passed
RefList(n, d) == [i \in 1..n |-> ((i - 1) % d) + 1]

\* reference lists: pairwise distinct ids, one id repeated, two ids repeated
RefLists == {RefList(n, d) : n \in 0..MaxRefs, d \in {1, 2, MaxRefs}}

ShortLists == {<<>>, <<1>>}

Prefixes == {1..j : j \in {0, 1, 2, MaxRefs}}

\* what a fetch can end in: the entity, an HTTPException of the platform, or
\* a transport error that request() lets through
FetchOutcomes == {"ok", "HTTPException", "OSError"}

\* the member lists fetch_members can return: everyone referenced, or
\* everyone but user 1
MemberLists == {Ids, Ids \ {1}}

Range(s) == {s[i] : i \in DOMAIN s}

\* HTTPClientBase._get_user / _get_server_member
GetUser(id) == id \in user_cache
GetServerMember(id) == id \in member_cache
\* Server.get_role / HTTPClientBase._get_server_role
GetServerRole(id) == id \in role_cache
\* HTTPClientBase._get_server_channel_or_thread
GetServerChannel(id) == id \in channel_cache

\* the lookup of Mentions.users and of the user loop of fill: the member of
\* the owning server if there is one, else the user
CachedUser(id) ==
  IF f_server THEN GetServerMember(id) \/ GetUser(id) ELSE GetUser(id)

\* len(self.users), len(self.roles)
LenUsers == Len(SelectSeq(m_users, CachedUser))
LenRoles == IF f_server THEN Len(SelectSeq(m_roles, GetServerRole)) ELSE 0

uncached_user_count == Len(m_users) - LenUsers
uncached_role_count == Len(m_roles) - LenRoles

\* faulty variant: ignore_cache does not widen the bulk condition
BulkUsersUncachedOnly == f_server /\ uncached_user_count >= BulkThreshold

\* the conditions of the two bulk branches
BulkUsers ==
  f_server /\ (uncached_user_count >= BulkThreshold
               \/ (Len(m_users) >= BulkThreshold /\ ignore_cache))

\* faulty variant: the role branch is chosen from the counts of the users
BulkRolesFromUserCounts ==
  f_server /\ (uncached_user_count >= BulkThreshold
               \/ (Len(m_users) >= BulkThreshold /\ ignore_cache))

BulkRoles ==
  f_server /\ (uncached_role_count >= BulkThreshold
               \/ (Len(m_roles) >= BulkThreshold /\ ignore_cache))

\* faulty variant: an HTTPException is swallowed whatever ignore_errors says
SwallowedAlways(outcome) == outcome = "HTTPException"

\* `except HTTPException: if not ignore_errors: raise`
Swallowed(outcome) == outcome = "HTTPException" /\ ignore_errors

Fetched(kind, id, outcome) == Append(flog, [kind |-> kind, id |-> id, res |-> outcome])

fillargs == <<f_server, m_users, m_roles, m_channels, ignore_cache, ignore_errors>>

\* no Mentions object is being filled
NoFill ==
  /\ f_server = FALSE
  /\ m_users = <<>>
  /\ m_roles = <<>>
  /\ m_channels = <<>>
  /\ ignore_cache = FALSE
  /\ ignore_errors = FALSE
  /\ user_cache = {}
  /\ member_cache = {}
  /\ role_cache = {}
  /\ channel_cache = {}
  /\ fpc = "idle"
  /\ idx = 1
  /\ flog = <<>>
  /\ ferr = None
  /\ uncached0 = {}
  /\ uncached_roles0 = {}
  /\ uncached_channels0 = {}

\* ------------------------------------------------------------------------
\* Entity cache
\* ------------------------------------------------------------------------
CacheIds == 1..MaxCacheIds

\* a lookup that finds nothing
NoEntity == [id |-> 0, ver |-> 0]

\* an insertion-ordered dict is a sequence of items [key, val, since]:
\* `since` is the snapshot count at which the key entered the dict
DictKeys(d) == {d[i].key : i \in DOMAIN d}

DictGet(d, k) ==
  IF k \in DictKeys(d)
  THEN d[CHOOSE i \in DOMAIN d : d[i].key = k].val
  ELSE NoEntity

\* faulty variant: a write for a key that is present adds a second item
DictSetAppend(d, k, v, t) == Append(d, [key |-> k, val |-> v, since |-> t])

\* d[k] = v: a key that is present keeps its place and gets the new value
DictSet(d, k, v, t) ==
  IF k \in DictKeys(d)
  THEN [i \in DOMAIN d |->
          IF d[i].key = k THEN [key |-> k, val |-> v, since |-> d[i].since]
          ELSE d[i]]
  ELSE Append(d, [key |-> k, val |-> v, since |-> t])

\* d.pop(k, None)
DictDel(d, k) == SelectSeq(d, LAMBDA it : it.key # k)

\* faulty variant: the newest items are dropped
EvictNewest(d, cap) == IF Len(d) > cap THEN SubSeq(d, 1, cap) ELSE d

\* the capacity rule of the message cache: the oldest items are dropped until
\* the dict holds no more than cap
Evict(d, cap) == IF Len(d) > cap THEN SubSeq(d, Len(d) - cap + 1, Len(d)) ELSE d

NoOp == [op |-> None, id |-> 0, res |-> NoEntity]

\* HTTPClientBase.__init__: empty caches
NoCache ==
  /\ c_users = <<>>
  /\ c_messages = <<>>
  /\ c_clock = 0
  /\ c_io = 0
  /\ c_last = NoOp

\* ------------------------------------------------------------------------
\* ChatMessage.delete
\* ------------------------------------------------------------------------
\* delay=None
NoDelay == -1

\* no delete() call yet
NoDelete ==
  /\ d_pc = "idle"
  /\ d_delay = NoDelay
  /\ d_err = None
  /\ d_task = "none"
  /\ d_wake = NoTime
  /\ d_outcome = None
  /\ d_calledAt = NoTime
  /\ d_returnedAt = NoTime
  /\ d_issuedAt = NoTime

\* ------------------------------------------------------------------------
\* request(): one action per suspension point
\* ------------------------------------------------------------------------
InitCalls(ids) ==
  /\ pc = [c \in ids |-> "idle"]
  /\ tries = [c \in ids |-> 0]
  /\ response = [c \in ids |-> NoResponse]
  /\ data = [c \in ids |-> NoData]
  /\ exc = [c \in ids |-> NoExc]
  /\ headers = [c \in ids |-> NoHeaders]
  /\ log_headers = [c \in ids |-> NoHeaders]
  /\ logged = [c \in ids |-> NoHeaders]
  /\ started = [c \in ids |-> NoTime]
  /\ attemptAt = [c \in ids |-> NoTime]
  /\ respAt = [c \in ids |-> NoTime]
  /\ wake = [c \in ids |-> NoTime]
  /\ hist = [c \in ids |-> <<>>]
  /\ result = [c \in ids |-> NoResult]

\* Heartbeater.__init__ at clock value t
InitHeartbeater(t) ==
  /\ hb = "idle"
  /\ loop = "running"
  /\ stop_ev = FALSE
  /\ f = "none"
  /\ total = 0
  /\ waitUntil = NoTime
  /\ warnings = 0
  /\ last_ping = t
  /\ last_pong = t
  /\ latency = Inf
  /\ probes = 0
  /\ due = <<>>
  /\ acked = NoTime
  /\ pongs = 0
  /\ stop_called = FALSE
  /\ recording = FALSE
  /\ conn = "idle"
  /\ conn_result = None
  /\ conn_pings = 0
  /\ conn_errors = 0

Init ==
  /\ now = 0
  /\ horizon = MaxTime
  /\ token \in Tokens
  /\ InitCalls({1})
  /\ InitHeartbeater(0)
  /\ NoFill
  /\ NoCache
  /\ NoDelete

InitConc ==
  /\ now = 0
  /\ horizon = ConcTime
  /\ token \in Tokens
  /\ InitCalls({1, 2})
  /\ InitHeartbeater(0)
  /\ NoFill
  /\ NoCache
  /\ NoDelete

\* faulty variant: a sleep holds back every call that is sleeping (a client-wide limit)
SleepUntilGlobal(c, t) ==
  [d \in DOMAIN wake |->
     IF d = c \/ (pc[d] = "sleep" /\ wake[d] < t) THEN t ELSE wake[d]]

\* await asyncio.sleep(d) of call c at clock value t: its own timer is armed
SleepUntil(c, t) == [wake EXCEPT ![c] = t]

\* request() is called: the headers are built and the first attempt is issued
Call(c) ==
  /\ pc[c] = "idle"
  /\ pc' = [pc EXCEPT ![c] = "request"]
  /\ headers' = [headers EXCEPT ![c] = RedactHeaders(BuildHeaders(token)).sent]
  /\ log_headers' = [log_headers EXCEPT ![c] = RedactHeaders(BuildHeaders(token)).log]
  /\ started' = [started EXCEPT ![c] = now]
  /\ attemptAt' = [attemptAt EXCEPT ![c] = now]
  /\ UNCHANGED <<now, horizon, token, tries, response, data, exc, logged,
                 respAt, wake, hist, result, hbvars, fillvars, cachevars, delvars>>

\* session.request raises
TransportError(c, e) ==
  /\ pc[c] = "request"
  /\ exc' = [exc EXCEPT ![c] = e]
  /\ hist' = [hist EXCEPT ![c] = Append(@, 0)]
  /\ attemptAt' = [attemptAt EXCEPT ![c] = NoTime]
  /\ IF IsRetryableError(e, tries[c])
     THEN /\ pc' = [pc EXCEPT ![c] = "sleep"]
          /\ respAt' = [respAt EXCEPT ![c] = now]
          /\ wake' = SleepUntil(c, now + Backoff(tries[c]))
          /\ UNCHANGED result
     ELSE /\ pc' = [pc EXCEPT ![c] = "raised"]
          /\ result' = [result EXCEPT ![c] = Propagated(e)]
          /\ UNCHANGED <<respAt, wake>>
  /\ UNCHANGED <<now, horizon, token, tries, response, data, headers,
                 log_headers, logged, started, hbvars, fillvars, cachevars, delvars>>

\* session.request returns a response: it is logged, decoded and classified
Response(c, resp) ==
  /\ pc[c] = "request"
  /\ response' = [response EXCEPT ![c] = resp]
  /\ exc' = [exc EXCEPT ![c] = NoExc]
  /\ logged' = [logged EXCEPT ![c] = log_headers[c]]
  /\ data' = [data EXCEPT ![c] = Decode(resp.body)]
  /\ hist' = [hist EXCEPT ![c] = Append(@, resp.status)]
  /\ attemptAt' = [attemptAt EXCEPT ![c] = NoTime]
  /\ IF IsSuccess(resp.status)
     THEN /\ pc' = [pc EXCEPT ![c] = "returned"]
          /\ result' = [result EXCEPT ![c] = Returned(Decode(resp.body))]
          /\ UNCHANGED <<respAt, wake>>
     ELSE IF resp.status = 429
     THEN /\ pc' = [pc EXCEPT ![c] = "sleep"]
          /\ respAt' = [respAt EXCEPT ![c] = now]
          /\ wake' = SleepUntil(c, now + RetryAfter(resp, tries[c]))
          /\ UNCHANGED result
     ELSE IF IsRetryStatus(resp.status)
     THEN /\ pc' = [pc EXCEPT ![c] = "sleep"]
          /\ respAt' = [respAt EXCEPT ![c] = now]
          /\ wake' = SleepUntil(c, now + Backoff(tries[c]))
          /\ UNCHANGED result
     ELSE /\ pc' = [pc EXCEPT ![c] = "raised"]
          /\ result' = [result EXCEPT ![c] = TerminalError(resp, Decode(resp.body))]
          /\ UNCHANGED <<respAt, wake>>
  /\ UNCHANGED <<now, horizon, token, tries, headers, log_headers, started,
                 hbvars, fillvars, cachevars, delvars>>

\* asyncio.sleep returns and the loop continues: the next attempt is issued,
\* or range(5) is exhausted and the terminal error is raised
Wake(c) ==
  /\ pc[c] = "sleep"
  /\ now >= wake[c]
  /\ respAt' = [respAt EXCEPT ![c] = NoTime]
  /\ wake' = [wake EXCEPT ![c] = NoTime]
  /\ IF tries[c] + 1 < MaxTries
     THEN /\ tries' = [tries EXCEPT ![c] = @ + 1]
          /\ pc' = [pc EXCEPT ![c] = "request"]
          /\ attemptAt' = [attemptAt EXCEPT ![c] = now]
          /\ UNCHANGED result
     ELSE /\ pc' = [pc EXCEPT ![c] = "raised"]
          /\ result' = [result EXCEPT ![c] = ExhaustedError(response[c], data[c])]
          /\ UNCHANGED <<tries, attemptAt>>
  /\ UNCHANGED <<now, horizon, token, response, data, exc, headers,
                 log_headers, logged, started, hist, hbvars, fillvars, cachevars, delvars>>

\* the clock advances: a running attempt ends within MaxLatency and a sleep
\* returns at its deadline (a late return is a longer next attempt)
Tick ==
  /\ now < horizon
  /\ \E c \in Calls : pc[c] \in {"request", "sleep"}
  /\ \A c \in Calls : pc[c] = "request" => now < attemptAt[c] + MaxLatency
  /\ \A c \in Calls : pc[c] = "sleep" => now < wake[c]
  /\ now' = now + 1
  /\ UNCHANGED <<horizon, reqvars, hbvars, fillvars, cachevars, delvars>>

Responses ==
  { [status |-> s, retry_after |-> r, body |-> b] :
      s \in Statuses, r \in RetryAfterVals, b \in Bodies }

\* the retry-after header is read on a 429 only
WireResponses == { r \in Responses : r.status # 429 => r.retry_after = NoHeader }

\* the answers drawn when two calls run concurrently
ConcResponses ==
  { r \in WireResponses :
      /\ r.status \in {201, 404, 429, 500}
      /\ r.body.ctype = "text/plain" }

ConcErrors == { e \in TransportErrors : e.errno \in {54, 104} }

Next ==
  \/ \E c \in Calls : Call(c)
  \/ \E c \in Calls, e \in TransportErrors : TransportError(c, e)
  \/ \E c \in Calls, r \in WireResponses : Response(c, r)
  \/ \E c \in Calls : Wake(c)
  \/ Tick

NextConc ==
  \/ \E c \in Calls : Call(c)
  \/ \E c \in Calls, e \in ConcErrors : TransportError(c, e)
  \/ \E c \in Calls, r \in ConcResponses : Response(c, r)
  \/ \E c \in Calls : Wake(c)
  \/ Tick

\* ------------------------------------------------------------------------
\* gateway.py: the Heartbeater thread and the I/O loop it probes
\* ------------------------------------------------------------------------
\* Heartbeater.__init__ assigns no _main_thread_id, and threading.Thread has
\* none: reading self._main_thread_id raises AttributeError
HasMainThreadId == FALSE

\* faulty variant: a connection without a Heartbeater reads latency 0
WsLatencyZeroWithoutMonitor == IF hb = "none" THEN 0 ELSE latency

\* WebSocket.latency
WsLatency == IF hb = "none" THEN Inf ELSE latency

\* no connection yet and no Heartbeater attached to it
InitHb ==
  /\ now = 0
  /\ horizon = HbTime
  /\ token = ""
  /\ InitCalls({})
  /\ hb = "none"
  /\ loop = "running"
  /\ stop_ev = FALSE
  /\ f = "none"
  /\ total = 0
  /\ waitUntil = NoTime
  /\ warnings = 0
  /\ last_ping = NoTime
  /\ last_pong = NoTime
  /\ latency = Inf
  /\ probes = 0
  /\ due = <<>>
  /\ acked = NoTime
  /\ pongs = 0
  /\ stop_called = FALSE
  /\ recording = FALSE
  /\ conn = "idle"
  /\ conn_result = None
  /\ conn_pings = 0
  /\ conn_errors = 0
  /\ NoFill
  /\ NoCache
  /\ NoDelete

hbthread == <<hb, stop_ev, f, total, waitUntil, warnings, last_ping, last_pong,
              latency, probes, acked, pongs, stop_called, recording>>

connvars == <<conn, conn_result, conn_pings, conn_errors>>

\* faulty variant: a WSServerHandshakeError propagates like any other exception
AfterHandshakeRaises(outcome) ==
  IF outcome = "ok"
  THEN [conn |-> "ping", result |-> None, errors |-> 0, pings |-> 1]
  ELSE [conn |-> "raised", result |-> outcome, errors |-> 0, pings |-> 0]

\* what connect() does with the outcome of platform.ws_connect(): a
\* WSServerHandshakeError is logged and returned, another exception
\* propagates, a socket is wrapped and probed
AfterHandshake(outcome) ==
  IF outcome = "ok"
  THEN [conn |-> "ping", result |-> None, errors |-> 0, pings |-> 1]
  ELSE IF outcome = "WSServerHandshakeError"
  THEN [conn |-> "returned", result |-> "WSServerHandshakeError", errors |-> 1,
        pings |-> 0]
  ELSE [conn |-> "raised", result |-> outcome, errors |-> 0, pings |-> 0]

\* faulty variant: the connection is returned whatever became of the probe
AfterPingIgnoresFailure(ok) == [conn |-> "returned", result |-> "ws"]

\* what connect() does once `await ws.ping()` is over
AfterPing(ok) ==
  IF ok THEN [conn |-> "returned", result |-> "ws"]
  ELSE [conn |-> "raised", result |-> "PingError"]

HandshakeOutcomes == {"ok", "WSServerHandshakeError", "ClientConnectorError"}

\* connect() is called and awaits platform.ws_connect()
Connect ==
  /\ conn = "idle"
  /\ conn' = "handshake"
  /\ UNCHANGED <<now, horizon, reqvars, fillvars, cachevars, delvars, hbthread, loop, due, conn_result,
                 conn_pings, conn_errors>>

\* platform.ws_connect() is over
Handshake(outcome) ==
  /\ conn = "handshake"
  /\ conn' = AfterHandshake(outcome).conn
  /\ conn_result' = AfterHandshake(outcome).result
  /\ conn_errors' = conn_errors + AfterHandshake(outcome).errors
  /\ conn_pings' = conn_pings + AfterHandshake(outcome).pings
  /\ UNCHANGED <<now, horizon, reqvars, fillvars, cachevars, delvars, hbthread, loop, due>>

\* the probe of connect() is sent, or its send raises
ConnectPing(ok) ==
  /\ conn = "ping"
  /\ conn' = AfterPing(ok).conn
  /\ conn_result' = AfterPing(ok).result
  /\ due' = IF ok THEN Append(due, now) ELSE due
  /\ UNCHANGED <<now, horizon, reqvars, fillvars, cachevars, delvars, hbthread, loop, conn_pings, conn_errors>>

\* a Heartbeater is constructed for the connection and attached to it
HbAttach ==
  /\ hb = "none"
  /\ conn = "returned"
  /\ conn_result = "ws"
  /\ hb' = "idle"
  /\ stop_ev' = FALSE
  /\ last_ping' = now
  /\ last_pong' = now
  /\ latency' = Inf
  /\ UNCHANGED <<now, horizon, reqvars, fillvars, cachevars, delvars, loop, f, total, waitUntil, warnings,
                 probes, due, acked, pongs, stop_called, recording, connvars>>

\* Thread.start(): run() enters its first _stop_ev.wait(interval)
HbStart ==
  /\ hb = "idle"
  /\ hb' = "waiting"
  /\ waitUntil' = now + Interval
  /\ UNCHANGED <<now, horizon, reqvars, fillvars, cachevars, delvars, loop, stop_ev, f, total, warnings,
                 last_ping, last_pong, latency, probes, due, acked, pongs,
                 stop_called, recording, connvars>>

\* _stop_ev.wait(interval) returns True: the loop of run() ends
HbWaitStopped ==
  /\ hb = "waiting"
  /\ stop_ev
  /\ hb' = "done"
  /\ waitUntil' = NoTime
  /\ UNCHANGED <<now, horizon, reqvars, fillvars, cachevars, delvars, loop, stop_ev, f, total, warnings,
                 last_ping, last_pong, latency, probes, due, acked, pongs,
                 stop_called, recording, connvars>>

\* _stop_ev.wait(interval) times out and returns False: the body of the loop
\* is entered
HbWaitTimeout ==
  /\ hb = "waiting"
  /\ ~stop_ev
  /\ now >= waitUntil
  /\ probes < MaxProbes
  /\ hb' = "scheduling"
  /\ waitUntil' = NoTime
  /\ UNCHANGED <<now, horizon, reqvars, fillvars, cachevars, delvars, loop, stop_ev, f, total, warnings,
                 last_ping, last_pong, latency, probes, due, acked, pongs,
                 stop_called, recording, connvars>>

\* the probe is handed to the I/O loop with run_coroutine_threadsafe, outside
\* the try block: a closed loop raises out of run(); otherwise f.result(10)
\* is entered
HbSchedule ==
  /\ hb = "scheduling"
  /\ IF loop = "closed"
     THEN /\ hb' = "crashed"
          /\ UNCHANGED <<f, total, probes, waitUntil>>
     ELSE /\ hb' = "blocked"
          /\ f' = "pending"
          /\ total' = 0
          /\ probes' = probes + 1
          /\ waitUntil' = now + StallTimeout
  /\ UNCHANGED <<now, horizon, reqvars, fillvars, cachevars, delvars, loop, stop_ev, warnings, last_ping,
                 last_pong, latency, due, acked, pongs, stop_called, recording, connvars>>

\* the I/O loop runs ws.ping(), between two callbacks: the frame is sent, or
\* the send raises
ProbeDone(ok) ==
  /\ f = "pending"
  /\ loop = "running"
  /\ ~recording
  /\ f' = IF ok THEN "done" ELSE "failed"
  /\ due' = IF ok THEN Append(due, now) ELSE due
  /\ UNCHANGED <<now, horizon, reqvars, fillvars, cachevars, delvars, hb, loop, stop_ev, total, waitUntil,
                 warnings, last_ping, last_pong, latency, probes, acked, pongs,
                 stop_called, recording, connvars>>

\* faulty variant: the next probe does not wait for the interval
HbResultNoWait ==
  /\ hb = "blocked"
  /\ f = "done"
  /\ last_ping' = now
  /\ hb' = "waiting"
  /\ f' = "none"
  /\ waitUntil' = now
  /\ UNCHANGED <<now, horizon, reqvars, fillvars, cachevars, delvars, loop, stop_ev, total, warnings,
                 last_pong, latency, probes, due, acked, pongs, stop_called, recording,
                 connvars>>

\* f.result(10) returns: break, and the else clause records the probe time
HbResult ==
  /\ hb = "blocked"
  /\ f = "done"
  /\ last_ping' = now
  /\ hb' = "waiting"
  /\ f' = "none"
  /\ waitUntil' = now + Interval
  /\ UNCHANGED <<now, horizon, reqvars, fillvars, cachevars, delvars, loop, stop_ev, total, warnings,
                 last_pong, latency, probes, due, acked, pongs, stop_called, recording,
                 connvars>>

\* f.result(10) raises the probe's exception: except Exception calls stop()
HbResultError ==
  /\ hb = "blocked"
  /\ f = "failed"
  /\ stop_ev' = TRUE
  /\ hb' = "waiting"
  /\ f' = "none"
  /\ waitUntil' = NoTime
  /\ UNCHANGED <<now, horizon, reqvars, fillvars, cachevars, delvars, loop, total, warnings, last_ping,
                 last_pong, latency, probes, due, acked, pongs, stop_called, recording,
                 connvars>>

\* f.result(10) times out: total += 10, then the frame of the loop thread is
\* looked up through self._main_thread_id. With the attribute the warning is
\* logged and f.result(10) is entered again; without it the AttributeError
\* reaches except Exception, which calls stop()
HbStall ==
  /\ hb = "blocked"
  /\ f = "pending"
  /\ now >= waitUntil
  /\ total' = total + StallTimeout
  /\ IF HasMainThreadId
     THEN /\ warnings' = warnings + 1
          /\ waitUntil' = now + StallTimeout
          /\ UNCHANGED <<hb, stop_ev>>
     ELSE /\ stop_ev' = TRUE
          /\ hb' = "waiting"
          /\ waitUntil' = NoTime
          /\ UNCHANGED warnings
  /\ UNCHANGED <<now, horizon, reqvars, fillvars, cachevars, delvars, loop, f, last_ping, last_pong,
                 latency, probes, due, acked, pongs, stop_called, recording, connvars>>

\* Heartbeater.stop(), from any thread
Stop ==
  /\ hb \notin {"none", "idle"}
  /\ stop_ev' = TRUE
  /\ stop_called' = TRUE
  /\ UNCHANGED <<now, horizon, reqvars, fillvars, cachevars, delvars, hb, loop, f, total, waitUntil,
                 warnings, last_ping, last_pong, latency, probes, due, acked,
                 pongs, recording, connvars>>

\* Heartbeater.record_pong(), on the I/O loop when the acknowledgment of the
\* oldest outstanding probe arrives: its first statement stamps _last_pong
RecordPong ==
  /\ due # <<>>
  /\ hb # "none"
  /\ loop = "running"
  /\ ~recording
  /\ recording' = TRUE
  /\ due' = Tail(due)
  /\ acked' = Head(due)
  /\ last_pong' = now
  /\ UNCHANGED <<now, horizon, reqvars, fillvars, cachevars, delvars, hb, loop,
                 stop_ev, f, total, waitUntil, warnings, last_ping, latency,
                 probes, pongs, stop_called, connvars>>

\* the second statement of record_pong reads _last_ping, which the
\* Heartbeater thread may have written since the first, and stores latency
RecordLatency ==
  /\ recording
  /\ recording' = FALSE
  /\ latency' = last_pong - last_ping
  /\ pongs' = pongs + 1
  /\ UNCHANGED <<now, horizon, reqvars, fillvars, cachevars, delvars, hb, loop,
                 stop_ev, f, total, waitUntil, warnings, last_ping, last_pong,
                 probes, due, acked, stop_called, connvars>>

\* the I/O loop is closed
LoopClose ==
  /\ loop = "running"
  /\ ~recording
  /\ hb \notin {"none", "idle"}
  /\ loop' = "closed"
  /\ UNCHANGED <<now, horizon, reqvars, fillvars, cachevars, delvars, hbthread, due, connvars>>

\* the clock advances: a pending wait or f.result returns at its deadline,
\* and record_pong gets from its first statement to its second within one unit
TickHb ==
  /\ now < horizon
  /\ hb \in {"waiting", "blocked"}
  /\ hb = "waiting" => probes < MaxProbes
  /\ waitUntil # NoTime => now < waitUntil
  /\ recording => now = last_pong
  /\ now' = now + 1
  /\ UNCHANGED <<horizon, reqvars, hbvars, fillvars, cachevars, delvars>>

NextHb ==
  \/ Connect
  \/ \E outcome \in HandshakeOutcomes : Handshake(outcome)
  \/ \E ok \in BOOLEAN : ConnectPing(ok)
  \/ HbAttach
  \/ HbStart
  \/ HbWaitStopped
  \/ HbWaitTimeout
  \/ HbSchedule
  \/ \E ok \in BOOLEAN : ProbeDone(ok)
  \/ HbResult
  \/ HbResultError
  \/ HbStall
  \/ Stop
  \/ RecordPong
  \/ RecordLatency
  \/ LoopClose
  \/ TickHb

\* ------------------------------------------------------------------------
\* Mentions.fill: the call
\* ------------------------------------------------------------------------
\* a Mentions object over user references, with or without an owning server,
\* and the caches as they are when fill() is called
InitFill ==
  /\ now = 0
  /\ horizon = 0
  /\ token = ""
  /\ InitCalls({})
  /\ InitHeartbeater(0)
  /\ NoCache
  /\ NoDelete
  /\ f_server \in BOOLEAN
  /\ ignore_cache \in BOOLEAN
  /\ ignore_errors \in BOOLEAN
  /\ \/ /\ m_users \in RefLists
        /\ m_roles \in ShortLists
        /\ m_channels \in ShortLists
        /\ member_cache \in Prefixes
        /\ user_cache \in {{}, {1, 2}}
        /\ role_cache = {}
        /\ channel_cache = {}
     \/ /\ m_users \in ShortLists
        /\ m_roles \in RefLists
        /\ m_channels \in {<<>>, <<1>>, <<1, 2>>}
        /\ member_cache = {}
        /\ user_cache = {}
        /\ role_cache \in Prefixes
        /\ channel_cache \in {{}, {1}}
     \/ /\ m_users = <<>>
        /\ m_roles \in ShortLists
        /\ m_channels \in RefLists
        /\ member_cache = {}
        /\ user_cache = {}
        /\ role_cache = {}
        /\ channel_cache \in Prefixes
  /\ fpc = "idle"
  /\ idx = 1
  /\ flog = <<>>
  /\ ferr = None
  /\ uncached0 = {}
  /\ uncached_roles0 = {}
  /\ uncached_channels0 = {}

\* fill() is called
FillCall ==
  /\ fpc = "idle"
  /\ fpc' = "users"
  /\ idx' = 1
  /\ uncached0' = {id \in Range(m_users) : ~CachedUser(id)}
  /\ uncached_roles0' = {id \in Range(m_roles) : ~GetServerRole(id)}
  /\ uncached_channels0' = {id \in Range(m_channels) : ~GetServerChannel(id)}
  /\ UNCHANGED <<now, horizon, reqvars, hbvars, cachevars, delvars,
                 fillargs, user_cache,
                 member_cache, role_cache, channel_cache, flog, ferr>>

\* the bulk branch for users: self._server.fetch_members(), not in a try
UsersBulk(outcome, members) ==
  /\ fpc = "users"
  /\ idx = 1
  /\ BulkUsers
  /\ flog' = Fetched("members", 0, outcome)
  /\ IF outcome = "ok"
     THEN /\ member_cache' = member_cache \cup (members \cap Range(m_users))
          /\ fpc' = "roles"
          /\ UNCHANGED ferr
     ELSE /\ fpc' = "raised"
          /\ ferr' = outcome
          /\ UNCHANGED member_cache
  /\ UNCHANGED <<now, horizon, reqvars, hbvars, cachevars, delvars,
                 fillargs, user_cache,
                 role_cache, channel_cache, idx, uncached0,
                 uncached_roles0, uncached_channels0>>

\* one iteration of the user loop that fetches nothing: the user is cached
UserCachedStep ==
  /\ fpc = "users"
  /\ idx <= Len(m_users)
  /\ idx > 1 \/ ~BulkUsers
  /\ ~(ignore_cache \/ ~CachedUser(m_users[idx]))
  /\ idx' = idx + 1
  /\ UNCHANGED <<now, horizon, reqvars, hbvars, cachevars, delvars,
                 fillargs, user_cache,
                 member_cache, role_cache, channel_cache, fpc, flog, ferr,
                 uncached0,
                 uncached_roles0, uncached_channels0>>

\* one iteration of the user loop that fetches: fetch_member of the owning
\* server, or get_user without one
UserFetch(outcome) ==
  /\ fpc = "users"
  /\ idx <= Len(m_users)
  /\ idx > 1 \/ ~BulkUsers
  /\ ignore_cache \/ ~CachedUser(m_users[idx])
  /\ flog' = Fetched(IF f_server THEN "member" ELSE "user", m_users[idx], outcome)
  /\ IF outcome = "ok"
     THEN /\ member_cache' = IF f_server THEN member_cache \cup {m_users[idx]}
                             ELSE member_cache
          /\ user_cache' = IF f_server THEN user_cache
                           ELSE user_cache \cup {m_users[idx]}
          /\ idx' = idx + 1
          /\ UNCHANGED <<fpc, ferr>>
     ELSE IF Swallowed(outcome)
     THEN /\ idx' = idx + 1
          /\ UNCHANGED <<member_cache, user_cache, fpc, ferr>>
     ELSE /\ fpc' = "raised"
          /\ ferr' = outcome
          /\ UNCHANGED <<member_cache, user_cache, idx>>
  /\ UNCHANGED <<now, horizon, reqvars, hbvars, cachevars, delvars,
                 fillargs, role_cache,
                 channel_cache, uncached0,
                 uncached_roles0, uncached_channels0>>

\* the user loop is over
UsersEnd ==
  /\ fpc = "users"
  /\ idx > Len(m_users)
  /\ idx > 1 \/ ~BulkUsers
  /\ fpc' = "roles"
  /\ idx' = 1
  /\ UNCHANGED <<now, horizon, reqvars, hbvars, cachevars, delvars,
                 fillargs, user_cache,
                 member_cache, role_cache, channel_cache, flog, ferr, uncached0,
                 uncached_roles0, uncached_channels0>>

\* the bulk branch for roles: self._server.fetch_roles(), not in a try
RolesBulk(outcome) ==
  /\ fpc = "roles"
  /\ idx = 1
  /\ BulkRoles
  /\ flog' = Fetched("roles", 0, outcome)
  /\ IF outcome = "ok"
     THEN /\ role_cache' = role_cache \cup Range(m_roles)
          /\ fpc' = "channels"
          /\ UNCHANGED ferr
     ELSE /\ fpc' = "raised"
          /\ ferr' = outcome
          /\ UNCHANGED role_cache
  /\ UNCHANGED <<now, horizon, reqvars, hbvars, cachevars, delvars,
                 fillargs, user_cache,
                 member_cache, channel_cache, idx, uncached0,
                 uncached_roles0, uncached_channels0>>

\* one iteration of the role loop without an owning server: self._server.id
\* raises AttributeError
RoleNoServer ==
  /\ fpc = "roles"
  /\ idx <= Len(m_roles)
  /\ ~f_server
  /\ fpc' = "raised"
  /\ ferr' = "AttributeError"
  /\ UNCHANGED <<now, horizon, reqvars, hbvars, cachevars, delvars,
                 fillargs, user_cache,
                 member_cache, role_cache, channel_cache, idx, flog, uncached0,
                 uncached_roles0, uncached_channels0>>

\* one iteration of the role loop that fetches nothing
RoleCachedStep ==
  /\ fpc = "roles"
  /\ idx <= Len(m_roles)
  /\ idx > 1 \/ ~BulkRoles
  /\ f_server
  /\ ~(ignore_cache \/ ~GetServerRole(m_roles[idx]))
  /\ idx' = idx + 1
  /\ UNCHANGED <<now, horizon, reqvars, hbvars, cachevars, delvars,
                 fillargs, user_cache,
                 member_cache, role_cache, channel_cache, fpc, flog, ferr,
                 uncached0,
                 uncached_roles0, uncached_channels0>>

\* one iteration of the role loop that fetches: self._server.fetch_role
RoleFetch(outcome) ==
  /\ fpc = "roles"
  /\ idx <= Len(m_roles)
  /\ idx > 1 \/ ~BulkRoles
  /\ f_server
  /\ ignore_cache \/ ~GetServerRole(m_roles[idx])
  /\ flog' = Fetched("role", m_roles[idx], outcome)
  /\ IF outcome = "ok"
     THEN /\ role_cache' = role_cache \cup {m_roles[idx]}
          /\ idx' = idx + 1
          /\ UNCHANGED <<fpc, ferr>>
     ELSE IF Swallowed(outcome)
     THEN /\ idx' = idx + 1
          /\ UNCHANGED <<role_cache, fpc, ferr>>
     ELSE /\ fpc' = "raised"
          /\ ferr' = outcome
          /\ UNCHANGED <<role_cache, idx>>
  /\ UNCHANGED <<now, horizon, reqvars, hbvars, cachevars, delvars,
                 fillargs, user_cache,
                 member_cache, channel_cache, uncached0,
                 uncached_roles0, uncached_channels0>>

\* the role loop is over
RolesEnd ==
  /\ fpc = "roles"
  /\ idx > Len(m_roles)
  /\ idx > 1 \/ ~BulkRoles
  /\ fpc' = "channels"
  /\ idx' = 1
  /\ UNCHANGED <<now, horizon, reqvars, hbvars, cachevars, delvars,
                 fillargs, user_cache,
                 member_cache, role_cache, channel_cache, flog, ferr, uncached0,
                 uncached_roles0, uncached_channels0>>

\* one iteration of the channel loop that fetches nothing
ChannelCachedStep ==
  /\ fpc = "channels"
  /\ idx <= Len(m_channels)
  /\ f_server
  /\ ~(ignore_cache \/ ~GetServerChannel(m_channels[idx]))
  /\ idx' = idx + 1
  /\ UNCHANGED <<now, horizon, reqvars, hbvars, cachevars, delvars,
                 fillargs, user_cache,
                 member_cache, role_cache, channel_cache, fpc, flog, ferr,
                 uncached0,
                 uncached_roles0, uncached_channels0>>

\* one iteration of the channel loop that fetches: self._server.fetch_channel
ChannelFetch(outcome) ==
  /\ fpc = "channels"
  /\ idx <= Len(m_channels)
  /\ f_server
  /\ ignore_cache \/ ~GetServerChannel(m_channels[idx])
  /\ flog' = Fetched("channel", m_channels[idx], outcome)
  /\ IF outcome = "ok"
     THEN /\ channel_cache' = channel_cache \cup {m_channels[idx]}
          /\ idx' = idx + 1
          /\ UNCHANGED <<fpc, ferr>>
     ELSE IF Swallowed(outcome)
     THEN /\ idx' = idx + 1
          /\ UNCHANGED <<channel_cache, fpc, ferr>>
     ELSE /\ fpc' = "raised"
          /\ ferr' = outcome
          /\ UNCHANGED <<channel_cache, idx>>
  /\ UNCHANGED <<now, horizon, reqvars, hbvars, cachevars, delvars,
                 fillargs, user_cache,
                 member_cache, role_cache, uncached0,
                 uncached_roles0, uncached_channels0>>

\* the channel loop is over, or is left by `break` without an owning server:
\* fill() returns
ChannelsEnd ==
  /\ fpc = "channels"
  /\ idx > Len(m_channels) \/ ~f_server
  /\ fpc' = "done"
  /\ UNCHANGED <<now, horizon, reqvars, hbvars, cachevars, delvars,
                 fillargs, user_cache,
                 member_cache, role_cache, channel_cache, idx, flog, ferr,
                 uncached0,
                 uncached_roles0, uncached_channels0>>

NextFill ==
  \/ FillCall
  \/ \E outcome \in FetchOutcomes, members \in MemberLists : UsersBulk(outcome, members)
  \/ UserCachedStep
  \/ \E outcome \in FetchOutcomes : UserFetch(outcome)
  \/ UsersEnd
  \/ \E outcome \in FetchOutcomes : RolesBulk(outcome)
  \/ RoleNoServer
  \/ RoleCachedStep
  \/ \E outcome \in FetchOutcomes : RoleFetch(outcome)
  \/ RolesEnd
  \/ ChannelCachedStep
  \/ \E outcome \in FetchOutcomes : ChannelFetch(outcome)
  \/ ChannelsEnd

\* ------------------------------------------------------------------------
\* Entity cache: the operations
\* ------------------------------------------------------------------------
InitCache ==
  /\ now = 0
  /\ horizon = 0
  /\ token = ""
  /\ InitCalls({})
  /\ InitHeartbeater(0)
  /\ NoFill
  /\ NoCache
  /\ NoDelete

\* create_user(payload): the entity is built from the payload and stored
\* under its id
CreateUser(id) ==
  /\ c_clock < MaxSnapshots
  /\ c_clock' = c_clock + 1
  /\ c_users' = DictSet(c_users, id, [id |-> id, ver |-> c_clock + 1], c_clock + 1)
  /\ c_last' = [op |-> "create_user", id |-> id,
                res |-> [id |-> id, ver |-> c_clock + 1]]
  /\ UNCHANGED <<now, horizon, reqvars, hbvars, fillvars, delvars, c_messages, c_io>>

\* get_user(id): a lookup in the dict
GetUserOp(id) ==
  /\ c_last' = [op |-> "get_user", id |-> id, res |-> DictGet(c_users, id)]
  /\ UNCHANGED <<now, horizon, reqvars, hbvars, fillvars, delvars, c_users,
                 c_messages, c_clock, c_io>>

\* forget_user(id)
ForgetUser(id) ==
  /\ c_users' = DictDel(c_users, id)
  /\ c_last' = [op |-> "forget_user", id |-> id, res |-> NoEntity]
  /\ UNCHANGED <<now, horizon, reqvars, hbvars, fillvars, delvars, c_messages,
                 c_clock, c_io>>

\* create_message(payload): stored under its id, then the capacity rule
CreateMessage(id) ==
  /\ c_clock < MaxSnapshots
  /\ c_clock' = c_clock + 1
  /\ c_messages' = Evict(DictSet(c_messages, id, [id |-> id, ver |-> c_clock + 1],
                                 c_clock + 1), MsgCapacity)
  /\ c_last' = [op |-> "create_message", id |-> id,
                res |-> [id |-> id, ver |-> c_clock + 1]]
  /\ UNCHANGED <<now, horizon, reqvars, hbvars, fillvars, delvars, c_users, c_io>>

\* _get_message(id): a lookup in the dict, which leaves its order alone
GetMessageOp(id) ==
  /\ c_last' = [op |-> "get_message", id |-> id, res |-> DictGet(c_messages, id)]
  /\ UNCHANGED <<now, horizon, reqvars, hbvars, fillvars, delvars, c_users,
                 c_messages, c_clock, c_io>>

NextCache ==
  \/ \E id \in CacheIds : CreateUser(id)
  \/ \E id \in CacheIds : GetUserOp(id)
  \/ \E id \in CacheIds : ForgetUser(id)
  \/ \E id \in CacheIds : CreateMessage(id)
  \/ \E id \in CacheIds : GetMessageOp(id)

\* ------------------------------------------------------------------------
\* ChatMessage.delete: the call and its background task
\* ------------------------------------------------------------------------
Delays == {NoDelay} \cup 0..MaxDelay

\* what the deletion request can end in
DeleteOutcomes == {"ok", "HTTPException", "OSError"}

\* faulty variant: the task does not sleep before its request
WakeTimeAtOnce(delay) == now

\* await asyncio.sleep(delay) returns delay after the task started
WakeTime(delay) == now + delay

\* how the task ends: `except HTTPException: pass`; another exception ends
\* the task, which nothing awaits
TaskEnd(outcome) ==
  IF outcome \in {"ok", "HTTPException"} THEN "done" ELSE "failed"

InitDelete ==
  /\ now = 0
  /\ horizon = DelTime
  /\ token = ""
  /\ InitCalls({})
  /\ InitHeartbeater(0)
  /\ NoFill
  /\ NoCache
  /\ NoDelete

\* delete(delay=...) is called: with a delay the task is created and the
\* call returns; without one the request is awaited
DeleteCall(delay) ==
  /\ d_pc = "idle"
  /\ d_delay' = delay
  /\ d_calledAt' = now
  /\ IF delay # NoDelay
     THEN /\ d_task' = "created"
          /\ d_pc' = "returned"
          /\ d_returnedAt' = now
          /\ UNCHANGED d_issuedAt
     ELSE /\ d_pc' = "awaiting"
          /\ d_issuedAt' = now
          /\ UNCHANGED <<d_task, d_returnedAt>>
  /\ UNCHANGED <<now, horizon, reqvars, hbvars, fillvars, cachevars, d_err,
                 d_wake, d_outcome>>

\* `await coro` of the call without delay is over
DeleteDone(outcome) ==
  /\ d_pc = "awaiting"
  /\ d_outcome' = outcome
  /\ d_returnedAt' = now
  /\ IF outcome = "ok"
     THEN d_pc' = "returned" /\ UNCHANGED d_err
     ELSE d_pc' = "raised" /\ d_err' = outcome
  /\ UNCHANGED <<now, horizon, reqvars, hbvars, fillvars, cachevars, d_delay,
                 d_task, d_wake, d_calledAt, d_issuedAt>>

\* the loop runs the task for the first time: it enters asyncio.sleep(delay)
TaskStart ==
  /\ d_task = "created"
  /\ d_task' = "sleeping"
  /\ d_wake' = WakeTime(d_delay)
  /\ UNCHANGED <<now, horizon, reqvars, hbvars, fillvars, cachevars, d_pc,
                 d_delay, d_err, d_outcome, d_calledAt, d_returnedAt, d_issuedAt>>

\* asyncio.sleep(delay) returns: the task awaits the deletion request
TaskWake ==
  /\ d_task = "sleeping"
  /\ now >= d_wake
  /\ d_task' = "requesting"
  /\ d_issuedAt' = now
  /\ UNCHANGED <<now, horizon, reqvars, hbvars, fillvars, cachevars, d_pc,
                 d_delay, d_err, d_wake, d_outcome, d_calledAt, d_returnedAt>>

\* the deletion request of the task is over
TaskDone(outcome) ==
  /\ d_task = "requesting"
  /\ d_outcome' = outcome
  /\ d_task' = TaskEnd(outcome)
  /\ UNCHANGED <<now, horizon, reqvars, hbvars, fillvars, cachevars, d_pc,
                 d_delay, d_err, d_wake, d_calledAt, d_returnedAt, d_issuedAt>>

\* the clock advances while a call can be made or something is pending; a
\* sleeping task wakes at its deadline
TickDel ==
  /\ now < horizon
  /\ d_pc \in {"idle", "awaiting"} \/ d_task \in {"created", "sleeping", "requesting"}
  /\ d_task = "sleeping" => now < d_wake
  /\ now' = now + 1
  /\ UNCHANGED <<horizon, reqvars, hbvars, fillvars, cachevars, delvars>>

NextDelete ==
  \/ \E delay \in Delays : DeleteCall(delay)
  \/ \E outcome \in DeleteOutcomes : DeleteDone(outcome)
  \/ TaskStart
  \/ TaskWake
  \/ \E outcome \in DeleteOutcomes : TaskDone(outcome)
  \/ TickDel

Spec == Init /\ [][Next]_vars

SpecConc == InitConc /\ [][NextConc]_vars

SpecHb == InitHb /\ [][NextHb]_vars

SpecFill == InitFill /\ [][NextFill]_vars

SpecCache == InitCache /\ [][NextCache]_vars

SpecDelete == InitDelete /\ [][NextDelete]_vars

\* ------------------------------------------------------------------------
\* Properties
\* ------------------------------------------------------------------------
Last(s) == s[Len(s)]

Terminated(c) == pc[c] \in {"returned", "raised"}

\* session.request invocations of call c so far
Attempts(c) == Len(hist[c]) + (IF pc[c] = "request" THEN 1 ELSE 0)

AllIn(s, S) == \A i \in 1..Len(s) : s[i] \in S

NoSleepPending(c) == wake[c] = NoTime /\ respAt[c] = NoTime

\* C1 as stated: a call whose attempts 1 and 2 receive 503 goes on to its third
\* attempt, and with 201 there it returns that body after at least 1 + 3 time units
C1_Original ==
  \A c \in Calls :
    /\ (Len(hist[c]) \in {1, 2} /\ AllIn(hist[c], {503})) => pc[c] # "raised"
    /\ hist[c] = <<503, 503, 201>> =>
         /\ pc[c] = "returned"
         /\ result[c].data = Decode(response[c].body)
         /\ now - started[c] >= 4

\* C1 amended: a call whose attempts 1 and 2 receive a status among 500, 502, 504, 524
\* and whose attempt 3 receives 201 returns the body of attempt 3, at least
\* 1 + 3 time units after it was called; a 503 ends the call on the attempt
\* that receives it, with PlatformServerError
C1_RetriedThenSuccess ==
  \A c \in Calls :
    /\ ( /\ Len(hist[c]) = 3
         /\ hist[c][1] \in {500, 502, 504, 524}
         /\ hist[c][2] \in {500, 502, 504, 524}
         /\ hist[c][3] = 201 ) =>
         /\ pc[c] = "returned"
         /\ result[c].type = "return"
         /\ response[c].status = 201
         /\ result[c].data = Decode(response[c].body)
         /\ now - started[c] >= 4
    /\ (hist[c] # <<>> /\ Last(hist[c]) = 503) =>
         /\ pc[c] = "raised"
         /\ result[c].type = "PlatformServerError"

C1_Witness ==
  \E c \in Calls :
    /\ hist[c] = <<500, 524, 201>>
    /\ pc[c] = "returned"
    /\ result[c].data.pytype = "dict"

\* C2 as stated: a call all of whose attempts received a 5xx status has made
\* 5 attempts when it ends, and ends with PlatformServerError
C2_Original ==
  \A c \in Calls :
    /\ Attempts(c) <= 5
    /\ (Terminated(c) /\ hist[c] # <<>> /\ \A i \in 1..Len(hist[c]) : hist[c][i] >= 500) =>
         /\ Len(hist[c]) = 5
         /\ result[c].type = "PlatformServerError"

\* C2 amended: a call all of whose attempts received a status among 500, 502, 504,
\* 524 has made 5 attempts when it ends and ends with PlatformServerError; a
\* call all of whose attempts received a 5xx status ends with
\* PlatformServerError, on the first status outside that set or after the 5th
\* attempt; no call issues a 6th attempt
C2_FiveThenServerError ==
  \A c \in Calls :
    /\ Attempts(c) <= 5
    /\ (Terminated(c) /\ hist[c] # <<>> /\ AllIn(hist[c], {500, 502, 504, 524})) =>
         /\ Len(hist[c]) = 5
         /\ result[c].type = "PlatformServerError"
         /\ result[c].status = hist[c][5]
    /\ (Terminated(c) /\ hist[c] # <<>> /\ \A i \in 1..Len(hist[c]) : hist[c][i] >= 500) =>
         /\ result[c].type = "PlatformServerError"
         /\ (Len(hist[c]) < 5 => Last(hist[c]) \notin {500, 502, 504, 524})

C2_Witness ==
  \E c \in Calls :
    /\ hist[c] = <<500, 524, 500, 524, 500>>
    /\ pc[c] = "raised"
    /\ result[c].type = "PlatformServerError"

C4_RateLimitDelay ==
  [][ \A c \in Calls :
        ( /\ pc[c] = "sleep"
          /\ pc'[c] = "request"
          /\ exc[c] = NoExc
          /\ response[c].status = 429
          /\ response[c].retry_after # NoHeader )
        => now' >= respAt[c] + response[c].retry_after ]_vars

C4_Witness ==
  \E c \in Calls :
    /\ pc[c] = "request"
    /\ hist[c] = <<429>>
    /\ response[c].retry_after = MaxRetryAfter
    /\ now >= MaxRetryAfter

\* C5: an OSError with errno 54 or 10054 is retried on attempts 1 to 4 and
\* propagates from the 5th; any other transport failure propagates from the
\* attempt it occurs on, with no sleep
C5_TransportRetry ==
  \A c \in Calls :
    /\ (pc[c] = "sleep" /\ exc[c] # NoExc) =>
         /\ exc[c].cls = "OSError"
         /\ exc[c].errno \in {54, 10054}
         /\ Len(hist[c]) <= 4
    /\ (hist[c] # <<>> /\ Last(hist[c]) = 0) =>
         IF exc[c].cls = "OSError" /\ exc[c].errno \in {54, 10054} /\ Len(hist[c]) <= 4
         THEN pc[c] \in {"sleep", "request"} /\ result[c] = NoResult
         ELSE /\ pc[c] = "raised"
              /\ result[c].type = exc[c].cls
              /\ result[c].errno = exc[c].errno
              /\ NoSleepPending(c)

C5_Witness ==
  \E c \in Calls :
    /\ hist[c] = <<0, 0, 0, 0, 0>>
    /\ pc[c] = "raised"
    /\ result[c].errno = 10054

\* C6: a 403 or 404 ends the call on the attempt that receives it, with
\* Forbidden or NotFound carrying the decoded body, and with no sleep
C6_ForbiddenNotFound ==
  \A c \in Calls :
    (hist[c] # <<>> /\ Last(hist[c]) \in {403, 404}) =>
      /\ pc[c] = "raised"
      /\ result[c].type = IF Last(hist[c]) = 403 THEN "Forbidden" ELSE "NotFound"
      /\ result[c].status = Last(hist[c])
      /\ result[c].data = Decode(response[c].body)
      /\ NoSleepPending(c)

C6_Witness ==
  \E c \in Calls :
    /\ hist[c] = <<500, 429, 0, 404>>
    /\ pc[c] = "raised"
    /\ result[c].type = "NotFound"
    /\ result[c].data.pytype = "dict"

OtherStatus(s) ==
  /\ s # 0
  /\ ~(200 <= s /\ s < 300)
  /\ s \notin {429, 500, 502, 504, 524, 403, 404}

CarriesBody(c) ==
  /\ result[c].status = response[c].status
  /\ result[c].message =
       IF data[c].pytype = "dict" /\ data[c].message # NoKey THEN data[c].message
       ELSE ""
  /\ result[c].code =
       IF data[c].pytype = "dict"
       THEN (IF data[c].code # NoKey THEN data[c].code ELSE "Unknown")
       ELSE ""

OwnDelay(c) ==
  IF exc[c] = NoExc /\ response[c].status = 429 /\ response[c].retry_after # NoHeader
  THEN response[c].retry_after
  ELSE 1 + 2 * (Len(hist[c]) - 1)

\* C8: with two calls on one client, the sleep of a call is fixed by its own
\* last outcome and its attempt counter by its own attempts; while one call
\* sleeps after a 429 the other can receive its response
C8_OnlyIssuingCallWaits ==
  \A c \in Calls :
    /\ pc[c] = "sleep" => wake[c] = respAt[c] + OwnDelay(c)
    /\ pc[c] = "sleep" => tries[c] = Len(hist[c]) - 1
    /\ pc[c] = "request" => tries[c] = Len(hist[c])
    /\ \A d \in Calls \ {c} :
         ( /\ pc[c] = "sleep"
           /\ response[c].status = 429
           /\ now < wake[c]
           /\ pc[d] = "request" )
         => ENABLED (\E r \in ConcResponses : Response(d, r))

C8_Witness ==
  \E c \in Calls, d \in Calls :
    /\ c # d
    /\ pc[c] = "sleep"
    /\ hist[c] = <<429>>
    /\ now < wake[c]
    /\ pc[d] = "returned"
    /\ started[d] > respAt[c]
    /\ Len(hist[d]) = 2

\* C9: with a token set, every log line carries the placeholder and not the
\* credential, and the headers passed to session.request carry the credential
C9_Redaction ==
  \A c \in Calls :
    (token # "" /\ pc[c] # "idle") =>
      /\ headers[c].Authorization = "Bearer " \o token
      /\ (\E i \in 1..Len(hist[c]) : hist[c][i] # 0) =>
           /\ logged[c].Authorization = "Bearer [removed]"
           /\ logged[c].Authorization # "Bearer " \o token
           /\ logged[c].UserAgent = headers[c].UserAgent

C9_Witness ==
  \E c \in Calls :
    /\ token = "s3cr3t"
    /\ Len(hist[c]) = 3
    /\ logged[c].Authorization = "Bearer [removed]"
    /\ pc[c] = "request"

\* C10: a stall of the probe wait logs one warning and leaves the monitor
\* blocked on the same probe, not stopped
C10_StallKeepsWaiting ==
  [][ total' > total =>
        /\ warnings' = warnings + 1
        /\ hb' = "blocked"
        /\ f' = f
        /\ stop_ev' = stop_ev ]_vars

\* the monitor is in its loop and stop() has not been called
Running == hb \in {"waiting", "scheduling", "blocked"} /\ ~stop_ev

\* C11: once stop() has been called, no further probe is handed to the I/O
\* loop, at whatever point of run() the call came
C11_NoProbeAfterStop == [][ stop_ev => probes' = probes ]_vars

\* C12: when handing the probe to a closed I/O loop fails, the monitor is
\* stopped through stop() and nothing is raised out of run()
C12_ScheduleFailureStops ==
  [][ (hb = "scheduling" /\ loop = "closed" /\ hb' # hb) =>
        (stop_ev' /\ hb' # "crashed") ]_vars

\* C13: the monitor leaves Running only by a call of stop() from outside or
\* by a failed scheduling, and run() never raises
C13_LeavesRunningOnlyByStop ==
  [][ (Running /\ ~Running') =>
        /\ \/ (stop_called' /\ hb' = hb)
           \/ (hb = "scheduling" /\ loop = "closed")
        /\ hb' # "crashed" ]_vars

\* C14: once an acknowledgment was recorded, latency is the time of that
\* acknowledgment minus the send time of the probe it acknowledges
C14_LatencyOfSameProbe == pongs > 0 => latency = last_pong - acked

\* C15: as long as no acknowledgment was recorded, the latency of the
\* connection reads as infinite
C15_InfiniteBeforeFirstAck == pongs = 0 => WsLatency = Inf

C15_Witness ==
  /\ pongs = 0
  /\ probes > 0
  /\ total > 0
  /\ stop_called
  /\ hb = "done"
  /\ WsLatency = Inf

\* C16: a handshake-level failure is logged once and returned by connect() as
\* its result; no connection is built, no Heartbeater attached, no probe sent
C16_HandshakeFailureReturned ==
  /\ [](conn_result = "WSServerHandshakeError" =>
          /\ conn = "returned"
          /\ conn_errors = 1
          /\ conn_pings = 0
          /\ due = <<>>
          /\ hb = "none")
  /\ [][ (conn = "handshake" /\ conn' = "returned") =>
          conn_result' = "WSServerHandshakeError" ]_vars

C16_Witness ==
  /\ conn = "returned"
  /\ conn_result = "WSServerHandshakeError"
  /\ conn_errors = 1

\* C17: connect() returns a connection only after its one probe was sent; a
\* failed probe makes connect() raise
C17_OneProbeBeforeReturn ==
  /\ conn_pings <= 1
  /\ (conn = "returned" /\ conn_result = "ws") =>
       /\ conn_pings = 1
       /\ hb = "none" => Len(due) = 1
  /\ conn_result = "PingError" => conn = "raised"
  /\ conn = "raised" => hb = "none"

C17_Witness ==
  /\ conn = "returned"
  /\ conn_result = "ws"
  /\ conn_pings = 1
  /\ hb = "none"
  /\ Len(due) = 1

\* positions in the record of fetches
BulkUserFetches == {i \in DOMAIN flog : flog[i].kind = "members"}
UserFetches == {i \in DOMAIN flog : flog[i].kind \in {"member", "user"}}
FailedFetches == {i \in DOMAIN flog : flog[i].res # "ok"}

\* the user references that were uncached when fill() was called
UncachedRefs0 == {i \in DOMAIN m_users : m_users[i] \in uncached0}

\* fill() has got past its user references
UsersProcessed == fpc \in {"roles", "channels", "done"}

\* C18 as stated: the choice between one bulk fetch and k individual fetches
\* follows the number of distinct uncached user ids
C18_Original ==
  (~ignore_cache /\ UsersProcessed) =>
    IF Cardinality(uncached0) >= 5
    THEN Cardinality(BulkUserFetches) = 1 /\ UserFetches = {}
    ELSE Cardinality(BulkUserFetches) = 0
         /\ Cardinality(UserFetches) = Cardinality(uncached0)

\* C18: with ignore_cache unset the bulk member fetch is taken exactly when
\* there is an owning server and 5 or more references are uncached (counted
\* per reference); then it is the only user fetch. Otherwise there is no bulk
\* fetch and, once the user references are processed, the ids fetched
\* individually are exactly the uncached ids, once each if no fetch failed
C18_BulkOrIndividual ==
  /\ ~f_server => BulkUserFetches = {}
  /\ (~ignore_cache /\ f_server /\ Cardinality(UncachedRefs0) >= 5
        /\ fpc \notin {"idle", "users"}) =>
       (Cardinality(BulkUserFetches) = 1 /\ UserFetches = {})
  /\ (~ignore_cache /\ ~(f_server /\ Cardinality(UncachedRefs0) >= 5)
        /\ UsersProcessed) =>
       /\ BulkUserFetches = {}
       /\ {flog[i].id : i \in UserFetches} = uncached0
       /\ (UserFetches \cap FailedFetches = {}) =>
            Cardinality(UserFetches) = Cardinality(uncached0)

C18_Witness ==
  /\ ~ignore_cache
  /\ f_server
  /\ Cardinality(uncached0) >= 5
  /\ Cardinality(BulkUserFetches) = 1
  /\ UserFetches = {}
  /\ fpc = "done"

\* C19: with ignore_errors set, fill() never raises the HTTPException of a
\* fetch
C19_IgnoreErrorsSwallowsAll ==
  ignore_errors => ~(fpc = "raised" /\ ferr = "HTTPException")

\* C20: with ignore_errors unset, a failed fetch is the last fetch of the
\* fill, and the fill has raised its error
C20_FirstFailureAborts ==
  ~ignore_errors =>
    \A i \in FailedFetches :
      /\ i = Len(flog)
      /\ fpc = "raised"
      /\ ferr = flog[i].res

C20_Witness ==
  /\ ~ignore_errors
  /\ fpc = "raised"
  /\ ferr = "HTTPException"
  /\ Len(flog) = 2
  /\ flog[1].res = "ok"
  /\ flog[2].kind = "member"
  /\ idx < Len(m_users)
  /\ m_roles # <<>>

\* positions of the role and channel fetches in the record of fetches
BulkRoleFetches == {i \in DOMAIN flog : flog[i].kind = "roles"}
RoleFetches == {i \in DOMAIN flog : flog[i].kind = "role"}
ChannelFetches == {i \in DOMAIN flog : flog[i].kind = "channel"}
BulkChannelFetches == {i \in DOMAIN flog : flog[i].kind = "channels"}

\* the references of a kind that were uncached when fill() was called
UncachedRoleRefs0 == {i \in DOMAIN m_roles : m_roles[i] \in uncached_roles0}
UncachedChannelRefs0 ==
  {i \in DOMAIN m_channels : m_channels[i] \in uncached_channels0}

\* the bulk condition of a kind, on the counts at the call
ManyRoles0 ==
  Cardinality(UncachedRoleRefs0) >= 5 \/ (Len(m_roles) >= 5 /\ ignore_cache)
ManyChannels0 ==
  Cardinality(UncachedChannelRefs0) >= 5 \/ (Len(m_channels) >= 5 /\ ignore_cache)

\* C21 as stated: roles and channels each take one bulk fetch from 5
\* references on and individual fetches below
C21_Original ==
  /\ (f_server /\ fpc \in {"channels", "done"} /\ ManyRoles0) =>
       (Cardinality(BulkRoleFetches) = 1 /\ RoleFetches = {})
  /\ (f_server /\ fpc = "done" /\ ManyChannels0) =>
       (Cardinality(BulkChannelFetches) = 1 /\ ChannelFetches = {})

\* C21: with an owning server, roles take one bulk fetch when 5 or more role
\* references are uncached (or 5 or more exist with ignore_cache), decided
\* from the role counts only, and individual fetches of the missing roles
\* otherwise; channels are always fetched individually, whatever their
\* number; without an owning server no role or channel is fetched
C21_RolesBulkChannelsIndividual ==
  /\ ~f_server => BulkRoleFetches \cup RoleFetches \cup ChannelFetches = {}
  /\ BulkChannelFetches = {}
  /\ (f_server /\ ManyRoles0 /\ fpc \in {"channels", "done"}) =>
       (Cardinality(BulkRoleFetches) = 1 /\ RoleFetches = {})
  /\ (f_server /\ ~ManyRoles0 /\ fpc \in {"channels", "done"}) =>
       /\ BulkRoleFetches = {}
       /\ {flog[i].id : i \in RoleFetches} =
            IF ignore_cache THEN Range(m_roles) ELSE uncached_roles0
  /\ (f_server /\ fpc = "done") =>
       /\ {flog[i].id : i \in ChannelFetches} =
            IF ignore_cache THEN Range(m_channels) ELSE uncached_channels0
       /\ (ChannelFetches \cap FailedFetches = {} /\ ~ignore_cache) =>
            Cardinality(ChannelFetches) = Cardinality(uncached_channels0)

C21_Witness ==
  /\ f_server
  /\ fpc = "done"
  /\ Cardinality(UncachedChannelRefs0) >= 5
  /\ Cardinality(ChannelFetches) >= 5
  /\ m_roles # <<>>

\* a dict holds one item per key, and the item of a key holds an entity of
\* that id
OneItemPerKey(d) ==
  \A i, j \in DOMAIN d :
    /\ d[i].key = d[j].key => i = j
    /\ d[i].val.id = d[i].key

Oldest(d) ==
  CHOOSE k \in DictKeys(d) :
    \A i, j \in DOMAIN d : d[i].key = k => d[i].since <= d[j].since

\* C23: the message cache never holds more than its capacity, and a new
\* message inserted into a full cache takes the place of the message held
\* longest, whatever was looked up in between
C23_CapacityFifo ==
  /\ [](Len(c_messages) <= MsgCapacity /\ OneItemPerKey(c_messages))
  /\ [][ (c_last'.op = "create_message" /\ c_clock' # c_clock
           /\ Len(c_messages) = MsgCapacity
           /\ c_last'.id \notin DictKeys(c_messages)) =>
          DictKeys(c_messages') =
            (DictKeys(c_messages) \ {Oldest(c_messages)}) \cup {c_last'.id} ]_vars

C23_Witness ==
  /\ c_last.op = "create_message"
  /\ Len(c_messages) = MsgCapacity
  /\ c_clock = MaxSnapshots
  /\ \A i \in DOMAIN c_messages : c_messages[i].since > 1
  /\ \E i \in DOMAIN c_messages :
       c_messages[i].key = c_last.id /\ c_messages[i].since = c_clock

\* C24: with a delay, delete() returns at once and never raises, the request
\* is issued no earlier than the delay after the call, and its failure stays
\* in the task; without a delay the failure of the request is raised to the
\* caller
C24_FireAndForget ==
  /\ (d_delay # NoDelay /\ d_pc # "idle") =>
       /\ d_pc = "returned"
       /\ d_returnedAt = d_calledAt
       /\ d_err = None
  /\ (d_delay # NoDelay /\ d_issuedAt # NoTime) =>
       d_issuedAt >= d_calledAt + d_delay
  /\ (d_delay = NoDelay /\ d_outcome # None) =>
       IF d_outcome = "ok" THEN d_pc = "returned" /\ d_err = None
       ELSE d_pc = "raised" /\ d_err = d_outcome

C24_Witness ==
  /\ d_delay = MaxDelay
  /\ d_outcome = "HTTPException"
  /\ d_task = "done"
  /\ d_pc = "returned"
  /\ d_issuedAt = d_calledAt + d_delay
  /\ d_returnedAt < d_issuedAt

\* C25: the sleep after the attempt with index k lasts 1 + 2*k for a retried
\* transport error, a 500/502/504/524 and a 429 without retry-after, and the
\* retry-after value for a 429 that carries one, whatever the earlier
\* attempts were
C25_BackoffSchedule ==
  \A c \in Calls :
    pc[c] = "sleep" =>
      /\ tries[c] \in 0..4
      /\ exc[c] # NoExc => tries[c] < 4
      /\ wake[c] - respAt[c] =
           IF exc[c] = NoExc /\ response[c].status = 429
              /\ response[c].retry_after # NoHeader
           THEN response[c].retry_after
           ELSE 1 + 2 * tries[c]

C25_Witness ==
  \E c \in Calls :
    /\ pc[c] = "sleep"
    /\ hist[c] = <<429, 524>>
    /\ respAt[c] >= started[c] + MaxRetryAfter
    /\ wake[c] - respAt[c] = 3

\* C26 as stated: with ignore_cache, 5 or more user references give one bulk
\* member fetch and fewer give one individual fetch per referenced user
C26_Original ==
  (ignore_cache /\ UsersProcessed) =>
    IF Len(m_users) >= 5
    THEN Cardinality(BulkUserFetches) = 1 /\ UserFetches = {}
    ELSE /\ BulkUserFetches = {}
         /\ Cardinality(UserFetches) = Cardinality(Range(m_users))

\* C26: with ignore_cache and an owning server, 5 or more user references
\* give exactly one bulk member fetch and no individual one, cached or not;
\* otherwise there is no bulk fetch and the user references are fetched
\* individually one after the other, once per reference
C26_IgnoreCacheRefetches ==
  /\ (ignore_cache /\ f_server /\ Len(m_users) >= 5
        /\ fpc \notin {"idle", "users"}) =>
       (Cardinality(BulkUserFetches) = 1 /\ UserFetches = {})
  /\ (ignore_cache /\ ~(f_server /\ Len(m_users) >= 5) /\ UsersProcessed) =>
       /\ BulkUserFetches = {}
       /\ UserFetches = DOMAIN m_users
       /\ \A i \in DOMAIN m_users : flog[i].id = m_users[i]

C26_Witness ==
  /\ ignore_cache
  /\ f_server
  /\ Len(m_users) >= 5
  /\ uncached0 = {}
  /\ Cardinality(BulkUserFetches) = 1
  /\ fpc = "done"

\* C27: the recorded latency is infinite or not negative
C27_LatencyNotNegative == latency = Inf \/ latency >= 0

\* C28: run() hands a probe to the I/O loop only when none of its probes is
\* pending there and a full interval has passed since it recorded the end of
\* the previous one (since its construction, for the first)
C28_OneProbeAtATime ==
  [][ probes' # probes =>
        /\ probes' = probes + 1
        /\ f # "pending"
        /\ f' = "pending"
        /\ now >= last_ping + Interval ]_vars

C28_Witness ==
  /\ probes = 2
  /\ f = "pending"
  /\ last_ping >= Interval
  /\ now >= last_ping + Interval

\* C29: after a fill with an owning server and ignore_errors unset has
\* returned, every referenced user is found in the cache
C29_AllUsersResolved ==
  (f_server /\ ~ignore_errors /\ fpc = "done") =>
    \A id \in Range(m_users) : CachedUser(id)

\* C30: no backoff sleep follows the 5th attempt of a call
C30_NoSleepAfterLastAttempt ==
  \A c \in Calls : Len(hist[c]) = 5 => pc[c] # "sleep"

====
